---------------------------- MODULE Spec2Model ----------------------------
(***************************************************************************)
(* A model of wsl2-ssh-agent (src/src/main.rs): the SSH agent framing      *)
(* codec (SshAgentCodec), the named pipe connector                         *)
(* (connect_to_named_pipe) and the forwarding loop                         *)
(* (handle_ssh_protocol_framing / forward_stream).                         *)
(*                                                                         *)
(* Integer widths are scaled: a byte ranges over 0..ByteMax instead of     *)
(* 0..255, a u32 is HEADER_SIZE such bytes (U32Mod values) and a usize of  *)
(* the 64-bit Windows targets is twice as wide (UsizeMod values).  All     *)
(* arithmetic of the source is done modulo these widths, and an overflow   *)
(* of `+` panics when the build has overflow checks (the dev profile) and  *)
(* wraps when it has none (the release profile).                           *)
(***************************************************************************)
EXTENDS Integers, Sequences, FiniteSets, TLC

\* ------------------------------------------------------------------ bounds

\* The largest value of a byte (255 in the source).
ByteMax == 1

\* The longest byte buffer handed to the codec.
MaxBuf == 10

\* The longest payload of a message built by SshAgentMessage::new.
MaxPayload == 2

\* The most codec calls made on one buffer.
MaxCalls == 3

\* --------------------------------------------------------------- constants

\* A header one byte short of a u32.
HeaderSizeShort == 4 - 1

\* const HEADER_SIZE: usize = std::mem::size_of::<u32>()
HEADER_SIZE == 4

Byte == 0..ByteMax

ByteRadix == ByteMax + 1

\* The number of values of a u32: HEADER_SIZE bytes.
U32Mod == ByteRadix ^ HEADER_SIZE

\* The number of values of a usize whose width is that of a u32 (a 32-bit
\* target): the width the 64-bit targets do not have.
UsizeMod32 == U32Mod

\* The number of values of a usize: the 64-bit targets, twice the width of
\* a u32.
UsizeMod == U32Mod * U32Mod

VARIABLES
    overflow_checks,  \* the build panics on integer overflow (else it wraps)
    verbose,          \* Cli::verbose: the logger is installed, debug! evaluates
    buf,              \* the BytesMut the codec works on
    item,             \* the SshAgentMessage in hand, or NoMsg
    calls,            \* the codec calls made so far, each with its outcome
    pipe_name,        \* Cli::pipe, the endpoint identifier
    max_retries,      \* Cli::retries
    attempt,          \* the loop variable of connect_to_named_pipe
    conn_pc,          \* where connect_to_named_pipe is: "idle", "open", "sleep", "done"
    conn_ret,         \* what connect_to_named_pipe returned
    opens,            \* the open calls made so far
    sleeps,           \* the thread::sleep calls made so far
    last_err,         \* the error of the latest failed open
    opened,           \* the open call that succeeded, 0 while none has
    echo,             \* the endpoint sends back every byte it is sent
    stream,           \* per direction: the bytes its source has still to yield
    closed,           \* per direction: its source has been closed by the peer
    reader,           \* per direction: the FramedRead (buffer, eof, is_readable)
    sink,             \* per direction: the bytes written to its destination
    taken,            \* per direction: the bytes read from its source
    relayed,          \* per direction: the messages sent and flushed
    last_frame,       \* the message and the bytes of the latest send
    msg,              \* the message forward_stream holds, or NoMsg
    pc,               \* where the loop is: a direction and next/send/flush, or done
    result,           \* what handle_ssh_protocol_framing's loop ended with
    main_pc,          \* where main is: "idle", "probe", "connect", "forward", "exit"
    probed,           \* what tokio::fs::metadata returned: "none" yet, "ok", "err"
    main_ret          \* what main returned

NoMsg == [length |-> -1, payload |-> <<>>]

\* A constructor that counts the header in the length.
SshAgentMessageWithHeader(length, payload) ==
    [length |-> length + 4, payload |-> payload]

\* SshAgentMessage::new
SshAgentMessage(length, payload) == [length |-> length, payload |-> payload]

\* ------------------------------------------------------------------- codec

Pow(b, e) == b ^ e

\* u32::to_le_bytes: the least significant byte first.
to_le_bytes(n) ==
    [i \in 1..HEADER_SIZE |-> (n \div Pow(ByteRadix, i - 1)) % ByteRadix]

\* u32::to_be_bytes: the most significant byte first.
to_be_bytes(n) ==
    [i \in 1..HEADER_SIZE |-> (n \div Pow(ByteRadix, HEADER_SIZE - i)) % ByteRadix]

RECURSIVE BeValue(_, _)
BeValue(bytes, acc) ==
    IF bytes = <<>> THEN acc
    ELSE BeValue(Tail(bytes), (acc * ByteRadix + Head(bytes)) % U32Mod)

\* u32::from_be_bytes
from_be_bytes(bytes) == BeValue(bytes, 0)

\* `a + b` on usize: the sum, and whether it overflowed.
UsizeAdd(a, b) == [val |-> (a + b) % UsizeMod, over |-> (a + b) >= UsizeMod]

\* Bytes i.. of a buffer (1-based), the empty buffer when there are none.
DropBytes(s, n) == SubSeq(s, n + 1, Len(s))

\* The buffer with no byte consumed.
NoAdvance(src) == src

\* src.advance(HEADER_SIZE)
AdvanceHeader(src) == DropBytes(src, HEADER_SIZE)

\* SshAgentCodec::decode.  tag is "None" (Ok(None)), "Some" (Ok(Some(msg)))
\* or "Panic"; buf is the buffer the call leaves.
decode(src) ==
    IF Len(src) < HEADER_SIZE
    THEN [tag |-> "None", msg |-> NoMsg, buf |-> src]
    ELSE
      LET length == from_be_bytes(SubSeq(src, 1, HEADER_SIZE))
          ulen   == length % UsizeMod
          need   == UsizeAdd(HEADER_SIZE, ulen)
      IN  IF need.over /\ overflow_checks
          THEN [tag |-> "Panic", msg |-> NoMsg, buf |-> src]
          ELSE IF Len(src) < need.val
          THEN [tag |-> "None", msg |-> NoMsg, buf |-> src]
          ELSE
            LET rest == AdvanceHeader(src)
            IN  IF ulen > Len(rest)
                THEN [tag |-> "Panic", msg |-> NoMsg, buf |-> rest]
                ELSE [tag |-> "Some",
                      msg |-> SshAgentMessage(length, SubSeq(rest, 1, ulen)),
                      buf |-> DropBytes(rest, ulen)]

\* An encoder that leaves the header out.
encode_payload(m, dst) == dst \o m.payload

\* SshAgentCodec::encode
encode(m, dst) == dst \o to_be_bytes(m.length) \o m.payload

\* --------------------------------------------------------------- connector

codecVars == <<buf, item, calls>>

connVars == <<pipe_name, max_retries, attempt, conn_pc, conn_ret, opens, sleeps,
              last_err, opened>>

loopVars == <<echo, stream, closed, reader, sink, taken, relayed, last_frame, msg,
              pc, result>>

mainVars == <<main_pc, probed, main_ret>>

vars == <<overflow_checks, verbose, codecVars, connVars, loopVars, mainVars>>

NoExit == [tag |-> "None", why |-> ""]

\* main has not been called: the connector, the loop or the codec is used on
\* its own.
MainIdle == main_pc = "idle" /\ probed = "none" /\ main_ret = NoExit

\* const OPENSSH_PIPE_NAME, the default of --pipe.
OPENSSH_PIPE_NAME == "\\\\.\\pipe\\openssh-ssh-agent"

\* The default name, and a name given with --pipe.
PipeNames == {OPENSSH_PIPE_NAME, "\\\\.\\pipe\\other"}

\* The errors OpenOptions::open fails with.
OpenErrors == {"NotFound", "PipeBusy"}

NoRet == [tag |-> "None", handle |-> 0, pipe |-> "", attempts |-> 0, cause |-> ""]

\* `a + 1` on u32: the sum, and whether it overflowed.
U32Succ(a) == [val |-> (a + 1) % U32Mod, over |-> a + 1 >= U32Mod]

\* The connector has not been called.
ConnIdle ==
    /\ pipe_name = "" /\ max_retries = 0 /\ attempt = 0 /\ conn_pc = "idle"
    /\ conn_ret = NoRet /\ opens = 0 /\ sleeps = 0 /\ last_err = "" /\ opened = 0

\* "in" is [stdin -> pipe], "out" is [pipe -> stdout].
Dirs == {"in", "out"}

\* A loop that awaits the endpoint first.
PipeFirst == "out"

\* The direction of the first forward_stream of the loop: [stdin -> pipe].
FirstDir == "in"

\* A loop whose second forward_stream is a copy of the first.
SameDir(d) == d

\* The direction the loop turns to after direction d: the two calls of
\* forward_stream alternate.
Other(d) == IF d = "in" THEN "out" ELSE "in"

\* FramedRead::new: an empty buffer, nothing to decode yet.
NewReader == [buffer |-> <<>>, eof |-> FALSE, is_readable |-> FALSE]

NoFrame == [msg |-> NoMsg, bytes |-> <<>>]

Running == [tag |-> "Running", dir |-> "", why |-> ""]

Done == [dir |-> "", at |-> "done"]

\* The forwarding loop has not been started.
LoopIdle ==
    /\ echo = FALSE
    /\ stream = [d \in Dirs |-> <<>>]
    /\ closed = [d \in Dirs |-> FALSE]
    /\ reader = [d \in Dirs |-> NewReader]
    /\ sink = [d \in Dirs |-> <<>>]
    /\ taken = [d \in Dirs |-> <<>>]
    /\ relayed = [d \in Dirs |-> 0]
    /\ last_frame = NoFrame
    /\ msg = NoMsg
    /\ pc = [dir |-> "in", at |-> "idle"]
    /\ result = Running

\* The codec is not in use.
CodecIdle == buf = <<>> /\ item = NoMsg /\ calls = <<>>

\* connect_to_named_pipe is called: the first iteration of
\* `for attempt in 0..=max_retries`.
ConnInit ==
    /\ overflow_checks \in BOOLEAN
    /\ verbose \in BOOLEAN
    /\ MainIdle
    /\ CodecIdle
    /\ LoopIdle
    /\ pipe_name \in PipeNames
    /\ max_retries \in 0..(U32Mod - 1)
    /\ attempt = 0
    /\ conn_pc = "open"
    /\ conn_ret = NoRet /\ opens = 0 /\ sleeps = 0 /\ last_err = "" /\ opened = 0

\* open succeeds: Ok(pipe) => return Ok(pipe), after the debug! of
\* attempt + 1, which is evaluated when the logger is installed.
ConnOpenOk ==
    /\ conn_pc = "open"
    /\ opens' = opens + 1
    /\ opened' = opens + 1
    /\ conn_pc' = "done"
    /\ conn_ret' = IF verbose /\ overflow_checks /\ U32Succ(attempt).over
                   THEN [NoRet EXCEPT !.tag = "Panic"]
                   ELSE [NoRet EXCEPT !.tag = "Ok", !.handle = opens + 1]
    /\ UNCHANGED <<overflow_checks, verbose, mainVars, codecVars, loopVars, pipe_name, max_retries,
                   attempt, sleeps, last_err>>

\* open fails with e: Err(e) => the connection-exhausted error when
\* attempt == max_retries, else the sleep.
ConnOpenErr ==
    /\ conn_pc = "open"
    /\ \E e \in OpenErrors :
        /\ opens' = opens + 1
        /\ last_err' = e
        /\ IF attempt = max_retries
           THEN /\ conn_pc' = "done"
                /\ conn_ret' = IF overflow_checks /\ U32Succ(max_retries).over
                               THEN [NoRet EXCEPT !.tag = "Panic"]
                               ELSE [NoRet EXCEPT !.tag = "Err", !.pipe = pipe_name,
                                                  !.attempts = U32Succ(max_retries).val,
                                                  !.cause = e]
           ELSE /\ conn_pc' = "sleep"
                /\ conn_ret' = conn_ret
    /\ UNCHANGED <<overflow_checks, verbose, mainVars, codecVars, loopVars, pipe_name, max_retries,
                   attempt, sleeps, opened>>

\* std::thread::sleep(retry_delay_ms), then the next iteration of the range,
\* or the statement after the loop when the range is exhausted.
ConnSleep ==
    /\ conn_pc = "sleep"
    /\ sleeps' = sleeps + 1
    /\ IF attempt < max_retries
       THEN attempt' = attempt + 1 /\ conn_pc' = "open" /\ conn_ret' = conn_ret
       ELSE /\ attempt' = attempt /\ conn_pc' = "done"
            /\ conn_ret' = [NoRet EXCEPT !.tag = "Unexpected"]
    /\ UNCHANGED <<overflow_checks, verbose, mainVars, codecVars, loopVars, pipe_name, max_retries,
                   opens, last_err, opened>>

ConnNext == ConnOpenOk \/ ConnOpenErr \/ ConnSleep

ConnSpec == ConnInit /\ [][ConnNext]_vars

\* --------------------------------------------------------- forwarding loop

\* The most messages, an unfinished last one included, that the two peers
\* supply together.
MaxUnits == 3

\* The length of a payload a peer supplies that is not empty.
MaxMsgLen == 1

\* The header a peer puts before a payload of n bytes: n in 4 bytes, the most
\* significant first.
WireHeader(n) ==
    << (n \div (ByteRadix * ByteRadix * ByteRadix)) % ByteRadix,
       (n \div (ByteRadix * ByteRadix)) % ByteRadix,
       (n \div ByteRadix) % ByteRadix,
       n % ByteRadix >>

\* The payload of a peer's i-th message: n bytes that tell it from its
\* neighbours.
Fill(i, n) == [j \in 1..n |-> i % ByteRadix]

\* The bytes of the messages whose payload lengths are lens, from the i-th on.
RECURSIVE WireFrames(_, _)
WireFrames(lens, i) ==
    IF i > Len(lens) THEN <<>>
    ELSE WireHeader(lens[i]) \o Fill(i, lens[i]) \o WireFrames(lens, i + 1)

\* What a peer may leave after its last whole message: nothing, half a
\* header, or the header of a message as long as a u32 allows and no payload.
Tails == {<<>>, SubSeq(WireHeader(1), 1, 2), WireHeader(U32Mod - 1)}

\* The payload lengths of the messages a peer supplies: each is empty or has
\* MaxMsgLen bytes.
LenLists(n) == [1..n -> {0, MaxMsgLen}]

\* The byte streams of at most u units (whole messages, and an unfinished
\* one after them) a peer supplies.
Scripts(u) ==
    {WireFrames(lens, 1) \o tail :
        lens \in UNION {LenLists(n) : n \in 0..u},
        tail \in {t \in Tails : t = <<>> \/ u > 0}}
    \ {WireFrames(lens, 1) \o tail : lens \in LenLists(u), tail \in Tails \ {<<>>}}

\* A loop that runs the two directions side by side.
AtAny(d, at) == pc.at = at

\* The loop is in forward_stream of direction d, at reader.next (next),
\* writer.send (send) or writer.flush (flush): one call at a time.
At(d, at) == pc = [dir |-> d, at |-> at]

\* The state handle_ssh_protocol_framing enters its loop in: the four framed
\* halves are new.  The client has the stream s to supply and the endpoint
\* the stream t.  No `+` of the loop can overflow a 64-bit usize, so the
\* build's overflow checks do not show in it.
LoopStart(s, t) ==
    /\ overflow_checks = FALSE
    /\ verbose = FALSE
    /\ MainIdle
    /\ CodecIdle
    /\ ConnIdle
    /\ stream = [d \in Dirs |-> IF d = "in" THEN s ELSE t]
    /\ closed = [d \in Dirs |-> FALSE]
    /\ reader = [d \in Dirs |-> NewReader]
    /\ sink = [d \in Dirs |-> <<>>]
    /\ taken = [d \in Dirs |-> <<>>]
    /\ relayed = [d \in Dirs |-> 0]
    /\ last_frame = NoFrame
    /\ msg = NoMsg
    /\ pc = [dir |-> FirstDir, at |-> "next"]
    /\ result = Running

\* An endpoint that supplies a stream of its own, whatever it is sent.
LoopInit ==
    /\ echo = FALSE
    /\ \E u \in 0..MaxUnits :
          \E s \in Scripts(u), t \in Scripts(MaxUnits - u) : LoopStart(s, t)

\* An endpoint that sends back what it is sent, and nothing else.
EchoInit == echo = TRUE /\ \E s \in Scripts(MaxUnits) : LoopStart(s, <<>>)

\* A loop that drops the outcome of forward_stream and turns to the other
\* direction.
Swallow(tag, d, why) ==
    /\ pc' = [dir |-> Other(d), at |-> "next"]
    /\ result' = result

\* The loop ends: forward_stream returned an error or panicked, or the loop
\* broke.
Finish(tag, d, why) ==
    /\ pc' = Done
    /\ result' = [tag |-> tag, dir |-> d, why |-> why]

\* A loop that breaks only when stdin is closed.
BreaksOnStdinOnly(d) == d = "in"

\* A loop that breaks only when the endpoint is closed.
BreaksOnPipeOnly(d) == d = "out"

\* `if !forward_stream(..).await? { break; }`: the loop breaks when either
\* direction returns Ok(false).
Breaks(d) == d \in Dirs

\* forward_stream returns Ok(false): its source is closed.
StreamClosed(d) ==
    IF Breaks(d)
    THEN Finish("Ok", d, "closed")
    ELSE pc' = [dir |-> Other(d), at |-> "next"] /\ result' = result

\* reader.next(), the read of FramedRead::poll_next: n bytes arrive in the
\* buffer.
ReadChunk(d) ==
    /\ At(d, "next")
    /\ ~reader[d].is_readable
    /\ \E n \in 1..Len(stream[d]) :
        /\ reader' = [reader EXCEPT ![d] =
                        [buffer |-> @.buffer \o SubSeq(stream[d], 1, n),
                         eof |-> FALSE, is_readable |-> TRUE]]
        /\ taken' = [taken EXCEPT ![d] = @ \o SubSeq(stream[d], 1, n)]
        /\ stream' = [stream EXCEPT ![d] = DropBytes(@, n)]
    /\ UNCHANGED <<overflow_checks, verbose, mainVars, codecVars, connVars, echo, closed, sink,
                   relayed, last_frame, msg, pc, result>>

\* A read that returns 0 bytes whenever its source has nothing at hand.
Drained(d) == stream[d] = <<>>

\* The read of direction d returns 0 bytes: the source is closed and all it
\* supplied was read.  A read of an open source with nothing at hand is
\* pending.
AtEnd(d) == closed[d] /\ stream[d] = <<>>

\* reader.next(), the read of FramedRead::poll_next: 0 bytes, the source is
\* closed and has nothing left.  The first such read sets eof, a second one
\* ends the stream.
ReadEof(d) ==
    /\ At(d, "next")
    /\ ~reader[d].is_readable
    /\ AtEnd(d)
    /\ IF reader[d].eof
       THEN StreamClosed(d) /\ reader' = reader
       ELSE /\ reader' = [reader EXCEPT ![d].eof = TRUE, ![d].is_readable = TRUE]
            /\ UNCHANGED <<pc, result>>
    /\ UNCHANGED <<overflow_checks, verbose, mainVars, codecVars, connVars, echo, stream, closed,
                   sink, taken, relayed, last_frame, msg>>

\* reader.next(): the read fails, `msg?` returns the error.
ReadErr(d) ==
    /\ At(d, "next")
    /\ ~reader[d].is_readable
    /\ Finish("Err", d, "read")
    /\ UNCHANGED <<overflow_checks, verbose, mainVars, codecVars, connVars, echo, stream, closed,
                   reader, sink, taken, relayed, last_frame, msg>>

\* reader.next(), the decode of FramedRead::poll_next: decode, or decode_eof
\* once eof is set, on the buffer.
FrameDecode(d) ==
    /\ At(d, "next")
    /\ reader[d].is_readable
    /\ LET r == decode(reader[d].buffer)
       IN  CASE r.tag = "Panic" ->
                  /\ Finish("Panic", d, "decode")
                  /\ reader' = [reader EXCEPT ![d].buffer = r.buf]
                  /\ msg' = msg
             [] r.tag = "Some" ->
                  /\ reader' = [reader EXCEPT ![d].buffer = r.buf]
                  /\ msg' = r.msg
                  /\ pc' = [dir |-> d, at |-> "send"]
                  /\ result' = result
             [] r.tag = "None" /\ ~reader[d].eof ->
                  /\ reader' = [reader EXCEPT ![d].is_readable = FALSE]
                  /\ UNCHANGED <<msg, pc, result>>
             [] r.tag = "None" /\ reader[d].eof /\ reader[d].buffer = <<>> ->
                  /\ reader' = [reader EXCEPT ![d].is_readable = FALSE]
                  /\ StreamClosed(d)
                  /\ msg' = msg
             [] r.tag = "None" /\ reader[d].eof /\ reader[d].buffer # <<>> ->
                  /\ Finish("Err", d, "bytes remaining on stream")
                  /\ UNCHANGED <<reader, msg>>
    /\ UNCHANGED <<overflow_checks, verbose, mainVars, codecVars, connVars, echo, stream, closed,
                   sink, taken, relayed, last_frame>>

\* A forward_stream that returns after the send, leaving the flush out.
SkipFlush(d) == [dir |-> Other(d), at |-> "next"]

\* Where forward_stream goes after writer.send(msg).await?: to
\* writer.flush().
AfterSend(d) == [dir |-> d, at |-> "flush"]

\* writer.send(msg): the message is encoded into the writer's empty buffer
\* and the buffer is written out.  An echoing endpoint that is still open
\* sends the bytes back.
Send(d) ==
    /\ At(d, "send")
    /\ LET frame == encode(msg, <<>>)
       IN  /\ sink' = [sink EXCEPT ![d] = @ \o frame]
           /\ last_frame' = [msg |-> msg, bytes |-> frame]
           /\ stream' = IF echo /\ d = "in" /\ ~closed["out"]
                        THEN [stream EXCEPT !["out"] = @ \o frame]
                        ELSE stream
    /\ msg' = NoMsg
    /\ pc' = AfterSend(d)
    /\ UNCHANGED <<overflow_checks, verbose, mainVars, codecVars, connVars, echo, closed, reader,
                   taken, relayed, result>>

\* writer.send(msg) fails after k bytes of the frame were written.
SendErr(d) ==
    /\ At(d, "send")
    /\ LET frame == encode(msg, <<>>)
       IN  \E k \in 0..Len(frame) :
             sink' = [sink EXCEPT ![d] = @ \o SubSeq(frame, 1, k)]
    /\ msg' = NoMsg
    /\ Finish("Err", d, "write")
    /\ UNCHANGED <<overflow_checks, verbose, mainVars, codecVars, connVars, echo, stream, closed,
                   reader, taken, relayed, last_frame>>

\* writer.flush() succeeds: forward_stream returns Ok(true) and the loop goes
\* on to the other direction.
Flush(d) ==
    /\ At(d, "flush")
    /\ relayed' = [relayed EXCEPT ![d] = @ + 1]
    /\ pc' = [dir |-> Other(d), at |-> "next"]
    /\ UNCHANGED <<overflow_checks, verbose, mainVars, codecVars, connVars, echo, stream, closed,
                   reader, sink, taken, last_frame, msg, result>>

\* writer.flush() fails.
FlushErr(d) ==
    /\ At(d, "flush")
    /\ Finish("Err", d, "flush")
    /\ UNCHANGED <<overflow_checks, verbose, mainVars, codecVars, connVars, echo, stream, closed,
                   reader, sink, taken, relayed, last_frame, msg>>

\* The peer closes the source of direction d: what it supplied stays readable.
Close(d) ==
    /\ pc.at \notin {"idle", "done"}
    /\ ~closed[d]
    /\ closed' = [closed EXCEPT ![d] = TRUE]
    /\ UNCHANGED <<overflow_checks, verbose, mainVars, codecVars, connVars, echo, stream, reader,
                   sink, taken, relayed, last_frame, msg, pc, result>>

LoopNext ==
    \E d \in Dirs :
        \/ ReadChunk(d) \/ ReadEof(d) \/ ReadErr(d) \/ FrameDecode(d)
        \/ Send(d) \/ SendErr(d) \/ Flush(d) \/ FlushErr(d)
        \/ Close(d)

LoopSpec == LoopInit /\ [][LoopNext]_vars

EchoSpec == EchoInit /\ [][LoopNext]_vars

\* What the runtime guarantees of the loop: a decode that can be made is
\* made, a send and a flush end (well or badly), and a read of a closed
\* source ends, for all its bytes have arrived.  A read of an open source
\* waits for the peer, which owes nothing.
LoopFairness ==
    \A d \in Dirs :
        /\ WF_vars(FrameDecode(d))
        /\ WF_vars(Send(d) \/ SendErr(d))
        /\ WF_vars(Flush(d) \/ FlushErr(d))
        /\ WF_vars(closed[d] /\ (ReadChunk(d) \/ ReadEof(d) \/ ReadErr(d)))

FairLoopSpec == LoopInit /\ [][LoopNext]_vars /\ LoopFairness

\* -------------------------------------------------------------------- main

\* The most retries given with --retries to a run of main.
MaxRetries == 1

\* A main that goes on whatever the probe returned.
ProbeIgnored(ok) == TRUE

\* `if let Err(_) = tokio::fs::metadata(&cli.pipe).await { return Err(..) }`:
\* main goes on when the probe returned Ok.
Reachable(ok) == ok

\* main is called without --pipe: Cli::parse has the default name of the
\* endpoint and the retry count, nothing is opened and no framed half exists.  The client has the stream s
\* to supply and the endpoint the stream t.
MainStart(s, t) ==
    /\ overflow_checks = FALSE
    /\ verbose = FALSE
    /\ CodecIdle
    /\ pipe_name = OPENSSH_PIPE_NAME
    /\ max_retries \in 0..MaxRetries
    /\ attempt = 0 /\ conn_pc = "idle"
    /\ conn_ret = NoRet /\ opens = 0 /\ sleeps = 0 /\ last_err = "" /\ opened = 0
    /\ echo = FALSE
    /\ stream = [d \in Dirs |-> IF d = "in" THEN s ELSE t]
    /\ closed = [d \in Dirs |-> FALSE]
    /\ reader = [d \in Dirs |-> NewReader]
    /\ sink = [d \in Dirs |-> <<>>]
    /\ taken = [d \in Dirs |-> <<>>]
    /\ relayed = [d \in Dirs |-> 0]
    /\ last_frame = NoFrame
    /\ msg = NoMsg
    /\ pc = [dir |-> FirstDir, at |-> "idle"]
    /\ result = Running
    /\ main_pc = "probe" /\ probed = "none" /\ main_ret = NoExit

MainInit ==
    \E u \in 0..MaxUnits :
        \E s \in Scripts(u), t \in Scripts(MaxUnits - u) : MainStart(s, t)

\* tokio::fs::metadata(&cli.pipe): on Err main returns the error, on Ok it
\* calls handle_ssh_protocol_framing, which calls connect_to_named_pipe in
\* spawn_blocking.
MainProbe ==
    /\ main_pc = "probe"
    /\ \E ok \in BOOLEAN :
        /\ probed' = IF ok THEN "ok" ELSE "err"
        /\ IF Reachable(ok)
           THEN /\ main_pc' = "connect"
                /\ conn_pc' = "open"
                /\ main_ret' = main_ret
           ELSE /\ main_pc' = "exit"
                /\ conn_pc' = conn_pc
                /\ main_ret' = [tag |-> "Err", why |-> "probe"]
    /\ UNCHANGED <<overflow_checks, verbose, codecVars, loopVars, pipe_name, max_retries,
                   attempt, conn_ret, opens, sleeps, last_err, opened>>

\* `.await??` on the spawn_blocking of the connector: with a handle the four
\* framed halves are made and the loop is entered; an error of the connector
\* (or its panic, a JoinError) is returned.
MainConnected ==
    /\ main_pc = "connect"
    /\ conn_pc = "done"
    /\ IF conn_ret.tag = "Ok"
       THEN /\ main_pc' = "forward"
            /\ pc' = [dir |-> FirstDir, at |-> "next"]
            /\ main_ret' = main_ret
       ELSE /\ main_pc' = "exit"
            /\ pc' = pc
            /\ main_ret' = [tag |-> "Err", why |-> "connect"]
    /\ UNCHANGED <<overflow_checks, verbose, codecVars, connVars, echo, stream, closed,
                   reader, sink, taken, relayed, last_frame, msg, result, probed>>

\* The loop has ended: handle_ssh_protocol_framing returns Ok(()) after a
\* break and the error otherwise, and main returns that.
MainExit ==
    /\ main_pc = "forward"
    /\ pc = Done
    /\ main_pc' = "exit"
    /\ main_ret' = IF result.tag = "Ok" THEN [tag |-> "Ok", why |-> ""]
                   ELSE [tag |-> "Err", why |-> "forward"]
    /\ UNCHANGED <<overflow_checks, verbose, codecVars, connVars, loopVars, probed>>

MainNext == MainProbe \/ ConnNext \/ MainConnected \/ LoopNext \/ MainExit

MainSpec == MainInit /\ [][MainNext]_vars

\* ------------------------------------------------- the codec, call by call

Buffers == UNION {[1..n -> Byte] : n \in 0..MaxBuf}

Payloads == UNION {[1..n -> Byte] : n \in 0..MaxPayload}

\* Every message SshAgentMessage::new can build within the bounds: the
\* length field is any u32, whatever the payload.
Messages == {SshAgentMessage(l, p) : l \in 0..(U32Mod - 1), p \in Payloads}

Panicked == calls # <<>> /\ calls[Len(calls)].tag = "Panic"

\* The bytes of a stream as they were read into the buffer, or the empty
\* buffer and a message to encode.
CodecInit ==
    /\ overflow_checks \in BOOLEAN
    /\ verbose = FALSE
    /\ calls = <<>>
    /\ MainIdle
    /\ ConnIdle
    /\ LoopIdle
    /\ \/ buf \in Buffers /\ item = NoMsg
       \/ buf = <<>> /\ item \in Messages

\* One call of decode on the buffer.
CodecDecode ==
    /\ Len(calls) < MaxCalls
    /\ ~Panicked
    /\ LET r == decode(buf)
       IN  /\ buf' = r.buf
           /\ item' = IF r.tag = "Some" THEN r.msg ELSE item
           /\ calls' = Append(calls, [op |-> "decode", pre |-> buf, arg |-> NoMsg,
                                      tag |-> r.tag, msg |-> r.msg, post |-> r.buf])
    /\ UNCHANGED <<overflow_checks, verbose, mainVars, connVars, loopVars>>

\* One call of encode of the message in hand, which the call consumes.
CodecEncode ==
    /\ Len(calls) < MaxCalls
    /\ ~Panicked
    /\ item # NoMsg
    /\ Len(encode(item, buf)) <= MaxBuf
    /\ buf' = encode(item, buf)
    /\ item' = NoMsg
    /\ calls' = Append(calls, [op |-> "encode", pre |-> buf, arg |-> item,
                               tag |-> "Ok", msg |-> NoMsg, post |-> encode(item, buf)])
    /\ UNCHANGED <<overflow_checks, verbose, mainVars, connVars, loopVars>>

CodecNext == CodecDecode \/ CodecEncode

CodecSpec == CodecInit /\ [][CodecNext]_vars

\* ------------------------------------------------------------ codec claims

\* The value of a 4-byte big-endian header, as an integer.
HeaderValue(b) ==
    b[1] * ByteRadix * ByteRadix * ByteRadix + b[2] * ByteRadix * ByteRadix
        + b[3] * ByteRadix + b[4]

DecodeCalls == {i \in 1..Len(calls) : calls[i].op = "decode"}

\* A message whose length field is the length of its payload.
WellFormed(m) == m # NoMsg /\ Len(m.payload) = m.length

\* The calls i, i+1 that encode a well-formed message into the empty buffer
\* and then decode that buffer.
RoundTrips ==
    {i \in 1..(Len(calls) - 1) :
        /\ calls[i].op = "encode" /\ calls[i].pre = <<>>
        /\ WellFormed(calls[i].arg)
        /\ calls[i + 1].op = "decode"}

\* C1: encoding a message whose length field equals its payload length into
\* an empty buffer and decoding that buffer yields that message (same length,
\* same payload) and leaves the buffer empty.
C1_RoundTrip ==
    \A i \in RoundTrips :
        /\ calls[i + 1].tag = "Some"
        /\ calls[i + 1].msg = calls[i].arg
        /\ calls[i + 1].post = <<>>

\* A round trip of a message with a payload of MaxPayload bytes has been made.
C1_Witness ==
    \E i \in RoundTrips : calls[i].arg.length = MaxPayload /\ calls[i + 1].tag = "Some"

\* C2: on a buffer of fewer than 4 bytes decode returns Ok(None), no error,
\* and leaves the buffer as it was.
C2_ShortBuffer ==
    \A i \in DecodeCalls :
        Len(calls[i].pre) < 4 => calls[i].tag = "None" /\ calls[i].post = calls[i].pre

\* decode has been called on a buffer of exactly 3 bytes.
C2_Witness ==
    \E i \in DecodeCalls : Len(calls[i].pre) = 3 /\ calls[i].tag = "None"

\* C3: on a buffer of at least 4 bytes whose header reads L, holding fewer
\* than 4 + L bytes (the sum taken in the integers, for every L up to the
\* largest u32), decode returns Ok(None) and leaves the buffer as it was.
C3_PartialMessage ==
    \A i \in DecodeCalls :
        (/\ Len(calls[i].pre) >= 4
         /\ Len(calls[i].pre) < 4 + HeaderValue(calls[i].pre))
        => calls[i].tag = "None" /\ calls[i].post = calls[i].pre

\* decode has been called on a partial message whose header is the largest
\* u32.
C3_Witness ==
    \E i \in DecodeCalls :
        /\ Len(calls[i].pre) >= 4
        /\ HeaderValue(calls[i].pre) = U32Mod - 1
        /\ calls[i].tag = "None"

\* C4: on a buffer of at least 4 + L bytes decode yields one message whose
\* length is L and whose payload is the L bytes after the header, removes
\* those 4 + L bytes and leaves the bytes after them, in order.
C4_CompleteMessage ==
    \A i \in DecodeCalls :
        LET pre == calls[i].pre
        IN  (Len(pre) >= 4 /\ Len(pre) >= 4 + HeaderValue(pre))
            => /\ calls[i].tag = "Some"
               /\ calls[i].msg.length = HeaderValue(pre)
               /\ calls[i].msg.payload = SubSeq(pre, 5, 4 + HeaderValue(pre))
               /\ calls[i].post = SubSeq(pre, 5 + HeaderValue(pre), Len(pre))

\* Two complete messages, the first with a payload, followed by a partial
\* one: three decode calls yield the two, in order, and then nothing.
C4_Witness ==
    /\ Len(calls) = 3
    /\ \A i \in 1..3 : calls[i].op = "decode"
    /\ calls[1].tag = "Some" /\ calls[1].msg.payload # <<>>
    /\ calls[2].tag = "Some" /\ calls[2].pre = calls[1].post
    /\ calls[3].tag = "None" /\ calls[3].pre # <<>> /\ calls[3].post = calls[3].pre

\* -------------------------------------------------------- connector claims

\* C6: when every open attempt fails, connect_to_named_pipe makes
\* max_retries + 1 open attempts and max_retries sleeps and returns the
\* connection-exhausted error, never a handle.
C6_AllAttemptsFail ==
    (conn_pc = "done" /\ opened = 0)
    => /\ opens = max_retries + 1
       /\ sleeps = max_retries
       /\ conn_ret.tag = "Err"

\* C7: when the k-th open attempt is the first to succeed,
\* connect_to_named_pipe returns the handle it opened after k attempts and
\* k - 1 sleeps, and attempts and sleeps no more.
C7_SuccessAtK ==
    opened > 0
    => /\ conn_pc = "done"
       /\ conn_ret.tag = "Ok" /\ conn_ret.handle = opened
       /\ opens = opened /\ sleeps = opened - 1

\* C8: the connection-exhausted error reports the endpoint identifier, the
\* error of the last attempt and the number of attempts made, and it is what
\* the connector ends with when every attempt failed.
C8_ExhaustedReport ==
    (conn_pc = "done" /\ opened = 0)
    => /\ conn_ret.tag = "Err"
       /\ conn_ret.pipe = pipe_name
       /\ conn_ret.cause = last_err
       /\ conn_ret.attempts = opens
       /\ conn_ret.attempts = max_retries + 1

\* ------------------------------------------------------------- loop claims

IsPrefix(a, b) == Len(a) <= Len(b) /\ a = SubSeq(b, 1, Len(a))

\* C5: every message decode produced has a payload of `length` bytes, and
\* every frame the relay writes is a 4-byte big-endian header whose value is
\* the number of payload bytes that follow it.
C5_LengthIsPayloadLen ==
    /\ msg # NoMsg => Len(msg.payload) = msg.length
    /\ last_frame # NoFrame =>
          /\ Len(last_frame.msg.payload) = last_frame.msg.length
          /\ Len(last_frame.bytes) >= 4
          /\ HeaderValue(last_frame.bytes) = Len(last_frame.bytes) - 4
          /\ SubSeq(last_frame.bytes, 5, Len(last_frame.bytes)) = last_frame.msg.payload

\* A message with a payload has been decoded from the endpoint and written
\* to stdout.
C5_Witness ==
    /\ At("out", "flush")
    /\ last_frame.msg.payload # <<>>

\* C9: with an echoing endpoint, what is written to the endpoint and what is
\* written to stdout is at any time a prefix of what was read from stdin,
\* and when the loop ends on the end of stdin, stdout has received the
\* messages stdin supplied, each as its header and payload, in their order,
\* one relay in each direction for each of them.
C9_EchoRelay ==
    /\ IsPrefix(sink["in"], taken["in"])
    /\ IsPrefix(sink["out"], taken["in"])
    /\ (pc = Done /\ result.tag = "Ok" /\ result.dir = "in")
       => \E n \in 0..MaxUnits : \E lens \in LenLists(n) :
             /\ taken["in"] = WireFrames(lens, 1)
             /\ sink["out"] = WireFrames(lens, 1)
             /\ relayed["in"] = Len(lens)
             /\ relayed["out"] = Len(lens)

\* The loop has ended on the end of stdin after MaxUnits messages, the last
\* with a payload, went to the endpoint and came back.
C9_Witness ==
    /\ pc = Done /\ result.tag = "Ok" /\ result.dir = "in"
    /\ relayed["out"] = MaxUnits
    /\ last_frame.msg.payload # <<>>

\* The endpoint's source is closed with none of its bytes unread or
\* undecoded, and stdin is not closed.
CleanEndpointEos ==
    /\ closed["out"] /\ ~closed["in"]
    /\ stream["out"] = <<>> /\ reader["out"].buffer = <<>>
    /\ pc # Done

\* The loop has ended, with success or with the failure of a read, a write
\* or a flush of the transport.
EndedOkOrTransportFailure ==
    /\ pc = Done
    /\ result.tag = "Ok" \/ result.why \in {"read", "write", "flush"}

\* C10 as claimed: once the endpoint's source is closed before stdin is, the
\* loop eventually ends with success, wherever it is (failures of the
\* transport are not held against the claim).
C10_Original == CleanEndpointEos ~> EndedOkOrTransportFailure

\* C10, amended: once the endpoint's source is closed before stdin is and the
\* loop awaits the endpoint's message, the loop eventually ends with success
\* (or with the failure of that read).
C10_EndpointEosAtStep2 ==
    (CleanEndpointEos /\ At("out", "next"))
    ~> (/\ pc = Done /\ result.dir = "out"
        /\ result.tag = "Ok" \/ result.why = "read")

\* The loop has ended with success on the end of the endpoint's stream, stdin
\* being open, after a message went each way.
C10_Witness ==
    /\ pc = Done /\ result = [tag |-> "Ok", dir |-> "out", why |-> "closed"]
    /\ closed["out"] /\ ~closed["in"]
    /\ relayed["out"] >= 1

\* C11: the relays alternate, stdin -> endpoint first: the messages relayed
\* to the endpoint are as many as those relayed to stdout, or one more, at
\* any time; a message is on its way to the endpoint only when the counts
\* are equal and on its way to stdout only when the endpoint is one ahead,
\* whatever either side has ready.
C11_StrictAlternation ==
    /\ relayed["in"] - relayed["out"] \in {0, 1}
    /\ (pc.dir = "in" /\ pc.at \in {"send", "flush"}) => relayed["in"] = relayed["out"]
    /\ (pc.dir = "out" /\ pc.at \in {"send", "flush"}) => relayed["in"] = relayed["out"] + 1
    /\ (pc.dir = "in" /\ pc.at = "next") => relayed["in"] = relayed["out"]
    /\ (pc.dir = "out" /\ pc.at = "next") => relayed["in"] = relayed["out"] + 1

\* The loop awaits the endpoint's message after one relay, with a second
\* whole message of stdin already in the buffer.
C11_Witness ==
    /\ At("out", "next")
    /\ relayed["in"] = 1 /\ relayed["out"] = 0
    /\ stream["out"] = <<>>
    /\ decode(reader["in"].buffer).tag = "Some"

\* The whole frames at the head of a byte sequence: how many they are, and
\* what is left after them.
RECURSIVE FrameCount(_)
FrameCount(bytes) ==
    IF Len(bytes) < 4 \/ Len(bytes) < 4 + HeaderValue(bytes) THEN 0
    ELSE 1 + FrameCount(DropBytes(bytes, 4 + HeaderValue(bytes)))

RECURSIVE FrameRest(_)
FrameRest(bytes) ==
    IF Len(bytes) < 4 \/ Len(bytes) < 4 + HeaderValue(bytes) THEN bytes
    ELSE FrameRest(DropBytes(bytes, 4 + HeaderValue(bytes)))

\* Every message written towards either destination has been flushed.
AllFlushed == \A d \in Dirs : FrameCount(sink[d]) = relayed[d]

\* C12: a message is read and decoded, then encoded and written, then
\* flushed, and no read of either stream is made before that flush: the relay
\* holds a message only between its decode and its write, bytes are read
\* only while no message is held and every message written was flushed,
\* bytes are written only from the message held, and a relay is counted only
\* by the flush of the one message written and not yet flushed.
C12_RelayOrder ==
    /\ [](/\ msg # NoMsg <=> pc.at = "send"
          /\ pc.at \in {"next", "send"} => AllFlushed
          /\ pc.at = "flush" =>
                \A d \in Dirs :
                    FrameCount(sink[d]) = relayed[d] + (IF d = pc.dir THEN 1 ELSE 0))
    /\ [][taken' # taken => pc.at = "next" /\ msg = NoMsg /\ AllFlushed]_vars
    /\ [][reader' # reader => pc.at = "next" /\ msg = NoMsg /\ AllFlushed]_vars
    /\ [][sink' # sink => pc.at = "send" /\ msg # NoMsg /\ AllFlushed]_vars
    /\ [][relayed' # relayed => pc.at = "flush" /\ msg = NoMsg]_vars

\* The second message of stdin is held by the relay, the first one and the
\* endpoint's answer to it having been written and flushed.
C12_Witness ==
    /\ At("in", "send")
    /\ relayed["in"] = 1 /\ relayed["out"] = 1
    /\ msg.payload # <<>>

\* A step of forward_stream in direction d that fails: the read, the decode
\* at the end of a stream that leaves bytes, the write, or the flush.
FailingStep(d) ==
    \/ ReadErr(d)
    \/ /\ FrameDecode(d)
       /\ reader[d].eof /\ reader[d].buffer # <<>>
       /\ decode(reader[d].buffer).tag = "None"
    \/ SendErr(d)
    \/ FlushErr(d)

\* C13: a failure of a read, a decode, a write or a flush, in either
\* direction, ends the loop at once with an error of that direction, and once
\* the loop has ended nothing is read, written, flushed or decoded.
C13_FailureEndsLoop ==
    /\ [][\A d \in Dirs :
             FailingStep(d) => pc' = Done /\ result'.tag = "Err" /\ result'.dir = d]_vars
    /\ [][pc = Done => UNCHANGED <<stream, reader, sink, taken, relayed, msg, pc, result>>]_vars
    /\ [](result.tag = "Err" => pc = Done)

\* The flush of the endpoint's message to stdout has failed and ended the
\* loop, with stdin's next message yet to be read.
C13_Witness ==
    /\ pc = Done
    /\ result = [tag |-> "Err", dir |-> "out", why |-> "flush"]
    /\ stream["in"] # <<>>

\* The read of direction d has reported the end of its stream with no byte
\* left in the buffer.
EosObserved(d) == reader[d].eof /\ reader[d].buffer = <<>>

\* C14: once stdin's read reports the end of the stream with nothing
\* buffered, the loop ends with success of that direction, and from that
\* report on no byte is read from the endpoint or from stdin and none is
\* written to stdout or the endpoint; the same for the endpoint's read.
C14_EosTerminates ==
    /\ \A d \in Dirs :
          EosObserved(d) ~> (pc = Done /\ result = [tag |-> "Ok", dir |-> d, why |-> "closed"])
    /\ [][\A d \in Dirs :
             EosObserved(d) =>
                /\ UNCHANGED <<taken, sink, relayed, msg>>
                /\ pc' # pc => pc' = Done /\ result'.tag = "Ok" /\ result'.dir = d]_vars
    /\ [](\A d \in Dirs : EosObserved(d) => pc \in {[dir |-> d, at |-> "next"], Done})

\* The loop has ended with success on the end of stdin after a message went
\* each way, leaving bytes of the endpoint unread.
C14_Witness ==
    /\ pc = Done /\ result = [tag |-> "Ok", dir |-> "in", why |-> "closed"]
    /\ relayed["out"] = 1
    /\ stream["out"] # <<>>

\* The loop awaits the endpoint's message after a relay to the endpoint, and
\* the endpoint, open, has sent no whole message and has nothing more at
\* hand.
Stalled ==
    /\ At("out", "next")
    /\ relayed["in"] >= 1
    /\ stream["out"] = <<>> /\ ~closed["out"]
    /\ decode(reader["out"].buffer).tag = "None"

\* C15: while the loop awaits the message of an endpoint that neither sends
\* nor closes (nor does the read of it fail), the loop stays where it is: it
\* does not end, takes no byte from stdin and relays nothing, whatever stdin
\* supplies and whether or not stdin is closed.
C15_StalledPeer ==
    [][(Stalled /\ ~closed'["out"] /\ ~ReadErr("out"))
       => /\ Stalled'
          /\ UNCHANGED <<pc, result, taken, sink, relayed, msg>>
          /\ reader'["in"] = reader["in"]]_vars

\* The loop awaits a silent, open endpoint while stdin, closed, has a further
\* message to give.
C15_Witness ==
    /\ Stalled
    /\ ~reader["out"].is_readable
    /\ closed["in"] /\ stream["in"] # <<>>

\* No byte has been read from a source or written to a destination, and no
\* message relayed.
NothingRelayed ==
    /\ taken = [d \in Dirs |-> <<>>]
    /\ sink = [d \in Dirs |-> <<>>]
    /\ relayed = [d \in Dirs |-> 0]
    /\ reader = [d \in Dirs |-> NewReader]

\* C16: the connector is called only after the probe returned Ok, and once
\* in a run; until it has returned a handle nothing is read from stdin or the
\* endpoint and nothing written to the endpoint or stdout; when the probe
\* fails main ends with an error without calling the connector, and when the
\* connector returns no handle main ends with an error, nothing having been
\* relayed.
C16_StartupOrder ==
    /\ [](conn_pc # "idle" => probed = "ok")
    /\ [][conn_pc = "idle" /\ conn_pc' # "idle" => main_pc = "probe" /\ opens = 0]_vars
    /\ [][conn_pc # "idle" => conn_pc' # "idle"]_vars
    /\ [][conn_pc = "done" => UNCHANGED connVars]_vars
    /\ [](conn_ret.tag # "Ok" => NothingRelayed /\ pc.at = "idle")
    /\ [](probed = "err" =>
            /\ main_pc = "exit" /\ main_ret = [tag |-> "Err", why |-> "probe"]
            /\ conn_pc = "idle" /\ opens = 0)
    /\ []((conn_pc = "done" /\ conn_ret.tag # "Ok") =>
            /\ main_pc \in {"connect", "exit"}
            /\ main_pc = "exit" => main_ret = [tag |-> "Err", why |-> "connect"])
    /\ [](main_pc = "exit" /\ main_ret.why \in {"probe", "connect"} => NothingRelayed)

\* main has returned Ok after the connector opened the endpoint on its last
\* attempt and a message was relayed each way.
C16_Witness ==
    /\ main_pc = "exit" /\ main_ret.tag = "Ok"
    /\ probed = "ok"
    /\ opened = MaxRetries + 1
    /\ relayed["out"] >= 1

\* The bytes of the message the relay holds for direction d.
Held(d) == IF At(d, "send") THEN encode(msg, <<>>) ELSE <<>>

\* The write towards the destination of direction d has failed.
WriteFailed(d) == pc = Done /\ result = [tag |-> "Err", dir |-> d, why |-> "write"]

\* C17 as claimed: in every state what was written to a destination is whole
\* frames, and a prefix of what was read from the source.
C17_Original ==
    \A d \in Dirs : FrameRest(sink[d]) = <<>> /\ IsPrefix(sink[d], taken[d])

\* C17, amended: what was written to a destination is a prefix of what was
\* read from the source and never includes the bytes still in the reader's
\* buffer; unless a write to that destination failed part way, it is whole
\* frames, and the bytes read are those written, those of the message held
\* and those buffered, in that order.
C17_WholeFramesUnlessWriteFails ==
    \A d \in Dirs :
        /\ IsPrefix(sink[d], taken[d])
        /\ Len(sink[d]) + Len(reader[d].buffer) <= Len(taken[d])
        /\ ~WriteFailed(d) =>
              /\ FrameRest(sink[d]) = <<>>
              /\ taken[d] = sink[d] \o Held(d) \o reader[d].buffer

\* Stdin was closed with an unfinished message in the buffer, after a message
\* went each way: the loop has ended and the unfinished bytes were not
\* written.
C17_Witness ==
    /\ pc = Done
    /\ result = [tag |-> "Err", dir |-> "in", why |-> "bytes remaining on stream"]
    /\ reader["in"].buffer # <<>>
    /\ relayed["out"] = 1
    /\ taken["in"] = sink["in"] \o reader["in"].buffer

\* Stdin is closed and all it supplied was read and relayed.
StdinSpent == closed["in"] /\ stream["in"] = <<>> /\ reader["in"].buffer = <<>>

\* C18: the closing of stdin is not seen while the loop is at the endpoint's
\* message: there the end of stdin is never observed and the loop ends only
\* on the endpoint's account; the endpoint's message in hand is written and
\* flushed before the loop ends on the end of stdin; and a loop that ended on
\* the end of stdin has relayed as many messages to stdout as to the
\* endpoint.
C18_ReplyNotLost ==
    /\ []((pc = Done /\ result.dir = "in"
             /\ result.why \in {"closed", "bytes remaining on stream"})
          => relayed["in"] = relayed["out"])
    /\ [](pc.dir = "out" => ~reader["in"].eof)
    /\ [][(pc.dir = "out" /\ closed["in"] /\ pc' = Done) => result'.dir = "out"]_vars
    /\ (StdinSpent /\ At("out", "send"))
         ~> (/\ pc = Done
             /\ \/ result.tag = "Err"
                \/ /\ result = [tag |-> "Ok", dir |-> "in", why |-> "closed"]
                   /\ relayed["out"] = relayed["in"]
                   /\ FrameCount(sink["out"]) = relayed["in"])

\* Stdin was closed, unseen, after its message went to the endpoint; the
\* endpoint's message has been written to stdout and is being flushed.
C18_Witness ==
    /\ At("out", "flush")
    /\ StdinSpent /\ ~reader["in"].eof
    /\ relayed["in"] = relayed["out"] + 1

\* C19: connect_to_named_pipe ends inside its retry loop, by returning a
\* handle or the connection-exhausted error, whatever the retry count and
\* the outcomes of the opens.
C19_ReturnsInLoop ==
    conn_pc = "done" => conn_ret.tag \in {"Ok", "Err"}

\* The part of C19 about the statement after the loop: the "Unexpected
\* error" result is never returned, for the last iteration returns on
\* either outcome of its open.
C19_NoFallThrough ==
    /\ conn_ret.tag # "Unexpected"
    /\ conn_pc = "sleep" => attempt < max_retries

====
